---- MODULE Spec2Model ----
(***************************************************************************)
(* GeoTools: two batch tools that reduce geometries to their axis-aligned  *)
(* bounding rectangle.                                                     *)
(*   geo tool: src/CreateRectangleByGeojson/create_rectangle_from_geojson.py *)
(*   tab tool: src/ExcelGeometryBoundsProcessor/                           *)
(*             excel_geometry_bounds_processor.py                          *)
(*                                                                         *)
(* Text is modelled as TLA+ strings read character by character; numbers   *)
(* are exact fixed-point decimals (an integer count of 1/Scale), so that   *)
(* parsing, min/max and the midpoint are computed, not assumed.  Python    *)
(* exceptions are modelled by a `raised` field of the result.              *)
(***************************************************************************)
EXTENDS Integers, Sequences, FiniteSets, TLC

\* ------------------------------------------------------------------------
\* Characters
\* ------------------------------------------------------------------------

Ch(s, i) == IF i >= 1 /\ i <= Len(s) THEN SubSeq(s, i, i) ELSE ""

\* the slice s[i-1:j] of Python: clipped to the string
Sub(s, i, j) ==
    LET b == IF j > Len(s) THEN Len(s) ELSE j
    IN IF i < 1 \/ i > b THEN "" ELSE SubSeq(s, i, b)

Digits == {"0", "1", "2", "3", "4", "5", "6", "7", "8", "9"}

\* JSON whitespace; Python's str.strip() and the regex class \s also cover
\* \f and \v, which the inputs of this model do not contain.
WhiteSpace == {" ", "\t", "\n", "\r"}

LowerLetters == "abcdefghijklmnopqrstuvwxyz"

UpperLetters == "ABCDEFGHIJKLMNOPQRSTUVWXYZ"

IsDigit(c) == c \in Digits

IsSpace(c) == c \in WhiteSpace

DigitVal(c) == CHOOSE d \in 0..9 : SubSeq("0123456789", d + 1, d + 1) = c

LetterIndex(alphabet, c) ==
    IF \E k \in 1..26 : SubSeq(alphabet, k, k) = c
    THEN CHOOSE k \in 1..26 : SubSeq(alphabet, k, k) = c
    ELSE 0

UpperCh(c) ==
    LET k == LetterIndex(LowerLetters, c)
    IN IF k = 0 THEN c ELSE SubSeq(UpperLetters, k, k)

LowerCh(c) ==
    LET k == LetterIndex(UpperLetters, c)
    IN IF k = 0 THEN c ELSE SubSeq(LowerLetters, k, k)

RECURSIVE MapChars(_, _, _)
MapChars(s, i, upper) ==
    IF i > Len(s) THEN ""
    ELSE (IF upper THEN UpperCh(Ch(s, i)) ELSE LowerCh(Ch(s, i)))
         \o MapChars(s, i + 1, upper)

\* str.upper() / str.lower()
Upper(s) == MapChars(s, 1, TRUE)

Lower(s) == MapChars(s, 1, FALSE)

RECURSIVE SkipWs(_, _)
SkipWs(s, i) ==
    IF i <= Len(s) /\ IsSpace(Ch(s, i)) THEN SkipWs(s, i + 1) ELSE i

RECURSIVE SkipWsBack(_, _)
SkipWsBack(s, j) ==
    IF j >= 1 /\ IsSpace(Ch(s, j)) THEN SkipWsBack(s, j - 1) ELSE j

\* str.strip()
Strip(s) ==
    LET i == SkipWs(s, 1)
        j == SkipWsBack(s, Len(s))
    IN Sub(s, i, j)

RECURSIVE SkipDigits(_, _)
SkipDigits(s, i) ==
    IF i <= Len(s) /\ IsDigit(Ch(s, i)) THEN SkipDigits(s, i + 1) ELSE i

StartsWith(s, p) == Len(s) >= Len(p) /\ Sub(s, 1, Len(p)) = p

\* ------------------------------------------------------------------------
\* Numbers: exact decimals with up to three fractional digits
\* ------------------------------------------------------------------------

Scale == 10 * 10 * 10

RECURSIVE DigitsVal(_, _, _, _)
\* value of the digit run s[i..j-1], read left to right
DigitsVal(s, i, j, acc) ==
    IF i >= j THEN acc ELSE DigitsVal(s, i + 1, j, 10 * acc + DigitVal(Ch(s, i)))

\* the fraction digits s[i..j-1] as a count of 1/Scale (digits beyond the
\* third are dropped)
FracVal(s, i, j) ==
    LET d(k) == IF i + k < j THEN DigitVal(Ch(s, i + k)) ELSE 0
    IN 100 * d(0) + 10 * d(1) + d(2)

\* float(token) for a token of the shape -?\d+\.?\d*
PyFloat(tok) ==
    LET neg == Ch(tok, 1) = "-"
        i0  == IF neg THEN 2 ELSE 1
        i1  == SkipDigits(tok, i0)
        hasDot == Ch(tok, i1) = "."
        mag == DigitsVal(tok, i0, i1, 0) * Scale
               + (IF hasDot THEN FracVal(tok, i1 + 1, Len(tok) + 1) ELSE 0)
    IN IF neg THEN 0 - mag ELSE mag

\* ------------------------------------------------------------------------
\* JSON values and json.loads
\* ------------------------------------------------------------------------
\* A value is a record with exactly one field, named after its kind:
\*   [num |-> fixed-point], [bool |-> b], [null |-> TRUE], [str |-> s],
\*   [list |-> <<v, ...>>], [obj |-> << [k |-> key, v |-> value], ... >>]

JNull == [null |-> TRUE]

JNum(n) == [num |-> n]

JStr(s) == [str |-> s]

JList(xs) == [list |-> xs]

JObj(ms) == [obj |-> ms]

IsKind(v, kind) == kind \in DOMAIN v

IsList(v) == IsKind(v, "list")

IsDict(v) == IsKind(v, "obj")

IsStr(v) == IsKind(v, "str")

\* isinstance(v, (int, float)): bool is a subclass of int in Python
IsNumeric(v) == IsKind(v, "num") \/ IsKind(v, "bool")

NumVal(v) == IF IsKind(v, "num") THEN v.num ELSE IF v.bool THEN Scale ELSE 0

\* key in d
HasKey(d, key) == \E i \in 1..Len(d.obj) : d.obj[i].k = key

\* d.get(key, default); a repeated key keeps its last value, as json.loads does
DictGet(d, key, default) ==
    IF HasKey(d, key)
    THEN LET S == {i \in 1..Len(d.obj) : d.obj[i].k = key}
             last == CHOOSE i \in S : \A j \in S : j <= i
         IN d.obj[last].v
    ELSE default

ParseFail == [ok |-> FALSE, val |-> JNull, pos |-> 0]

ParseOk(v, p) == [ok |-> TRUE, val |-> v, pos |-> p]

Signed(neg, mag) == IF neg THEN 0 - mag ELSE mag

\* the integer part is s[i0..i1-1]; the fraction, if any, follows the "."
NumberTail(s, neg, i0, i1) ==
    IF i1 = i0 THEN ParseFail
    ELSE IF Ch(s, i1) = "." /\ IsDigit(Ch(s, i1 + 1))
    THEN ParseOk(JNum(Signed(neg, DigitsVal(s, i0, i1, 0) * Scale
                                  + FracVal(s, i1 + 1, SkipDigits(s, i1 + 1)))),
                 SkipDigits(s, i1 + 1))
    ELSE ParseOk(JNum(Signed(neg, DigitsVal(s, i0, i1, 0) * Scale)), i1)

NumberBody(s, neg, i0) ==
    NumberTail(s, neg, i0, IF Ch(s, i0) = "0" THEN i0 + 1 ELSE SkipDigits(s, i0))

\* NUMBER_RE of the json module without the exponent part:
\* -?(0|[1-9]\d*)(\.\d+)?
ParseNumber(s, i) ==
    IF Ch(s, i) = "-" THEN NumberBody(s, TRUE, i + 1) ELSE NumberBody(s, FALSE, i)

RECURSIVE StringEnd(_, _)
\* index of the closing quote of a string whose body starts at i, 0 if none;
\* a backslash escape is not part of the inputs and ends the parse
StringEnd(s, i) ==
    IF i > Len(s) \/ Ch(s, i) = "\\" THEN 0
    ELSE IF Ch(s, i) = "\"" THEN i
    ELSE StringEnd(s, i + 1)

StringTo(s, i, e) ==
    IF e = 0 THEN ParseFail ELSE ParseOk(JStr(Sub(s, i + 1, e - 1)), e + 1)

\* a string that starts with the quote at i
ParseString(s, i) ==
    IF Ch(s, i) = "\"" THEN StringTo(s, i, StringEnd(s, i + 1)) ELSE ParseFail

ParseLiteral(s, i) ==
    IF Sub(s, i, i + 3) = "true" THEN ParseOk([bool |-> TRUE], i + 4)
    ELSE IF Sub(s, i, i + 4) = "false" THEN ParseOk([bool |-> FALSE], i + 5)
    ELSE IF Sub(s, i, i + 3) = "null" THEN ParseOk(JNull, i + 4)
    ELSE ParseFail

RECURSIVE ParseValue(_, _)
RECURSIVE ParseElems(_, _, _)
RECURSIVE ElemsAfter(_, _, _)
RECURSIVE ElemsNext(_, _, _)
RECURSIVE ParseMembers(_, _, _)
RECURSIVE MemberValue(_, _, _)
RECURSIVE MembersAfter(_, _, _, _)
RECURSIVE MembersNext(_, _, _)

\* the elements of an array after "[" or ","; i is at the next element
ParseElems(s, i, acc) == ElemsAfter(s, acc, ParseValue(s, i))

\* r is the element just parsed
ElemsAfter(s, acc, r) ==
    IF r.ok THEN ElemsNext(s, Append(acc, r.val), SkipWs(s, r.pos)) ELSE ParseFail

\* j is at the "," or "]" after an element
ElemsNext(s, acc, j) ==
    IF Ch(s, j) = "," THEN ParseElems(s, SkipWs(s, j + 1), acc)
    ELSE IF Ch(s, j) = "]" THEN ParseOk(JList(acc), j + 1)
    ELSE ParseFail

\* the members of an object after "{" or ","; i is at the next key
ParseMembers(s, i, acc) == MemberValue(s, acc, ParseString(s, i))

\* k is the key just parsed; the ":" and the value follow
MemberValue(s, acc, k) ==
    IF k.ok /\ Ch(s, SkipWs(s, k.pos)) = ":"
    THEN MembersAfter(s, acc, k.val.str, ParseValue(s, SkipWs(s, SkipWs(s, k.pos) + 1)))
    ELSE ParseFail

\* r is the value just parsed for the key
MembersAfter(s, acc, key, r) ==
    IF r.ok THEN MembersNext(s, Append(acc, [k |-> key, v |-> r.val]), SkipWs(s, r.pos))
    ELSE ParseFail

\* j is at the "," or "}" after a member
MembersNext(s, acc, j) ==
    IF Ch(s, j) = "," THEN ParseMembers(s, SkipWs(s, j + 1), acc)
    ELSE IF Ch(s, j) = "}" THEN ParseOk(JObj(acc), j + 1)
    ELSE ParseFail

\* an object or an array whose first token after the bracket is at j
ParseObject(s, j) ==
    IF Ch(s, j) = "}" THEN ParseOk(JObj(<<>>), j + 1) ELSE ParseMembers(s, j, <<>>)

ParseArray(s, j) ==
    IF Ch(s, j) = "]" THEN ParseOk(JList(<<>>), j + 1) ELSE ParseElems(s, j, <<>>)

ParseValue(s, i) ==
    IF Ch(s, i) = "{" THEN ParseObject(s, SkipWs(s, i + 1))
    ELSE IF Ch(s, i) = "[" THEN ParseArray(s, SkipWs(s, i + 1))
    ELSE IF Ch(s, i) = "\"" THEN ParseString(s, i)
    ELSE IF Ch(s, i) = "-" \/ IsDigit(Ch(s, i)) THEN ParseNumber(s, i)
    ELSE ParseLiteral(s, i)

\* the whole text must be one value
LoadsResult(s, r) ==
    IF r.ok /\ SkipWs(s, r.pos) = Len(s) + 1
    THEN [ok |-> TRUE, val |-> r.val]
    ELSE [ok |-> FALSE, val |-> JNull]

\* json.loads(s): [ok |-> FALSE] stands for JSONDecodeError
JsonLoads(s) == LoadsResult(s, ParseValue(s, SkipWs(s, 1)))

\* ------------------------------------------------------------------------
\* Regular expressions of the tab tool
\* ------------------------------------------------------------------------

\* the end (exclusive) of the greedy match of -?\d+\.?\d* that starts at i,
\* 0 when there is none
MatchNum(s, i) ==
    LET i0 == IF Ch(s, i) = "-" THEN i + 1 ELSE i
        i1 == SkipDigits(s, i0)
    IN IF ~IsDigit(Ch(s, i0)) THEN 0
       ELSE IF Ch(s, i1) = "." THEN SkipDigits(s, i1 + 1)
       ELSE i1

\* ^\s*<open>\s*NUM\s*,\s*NUM\s*<close>\s*$ with NUM = -?\d+\.?\d*.  A number
\* is followed by \s or "," here, so only its longest match can succeed.
MatchesTwoNumbers(s, open, close) ==
    LET p0 == SkipWs(s, 1)
        p1 == SkipWs(s, p0 + 1)
        n1 == MatchNum(s, p1)
        p2 == SkipWs(s, n1)
        p3 == SkipWs(s, p2 + 1)
        n2 == MatchNum(s, p3)
        p4 == SkipWs(s, n2)
    IN /\ Ch(s, p0) = open
       /\ n1 # 0
       /\ Ch(s, p2) = ","
       /\ n2 # 0
       /\ Ch(s, p4) = close
       /\ SkipWs(s, p4 + 1) = Len(s) + 1

RECURSIVE FindNumbers(_, _)
RECURSIVE NumberAt(_, _, _)
\* re.findall(r'-?\d+\.?\d*', s) from position i
FindNumbers(s, i) ==
    IF i > Len(s) THEN <<>> ELSE NumberAt(s, i, MatchNum(s, i))

\* e is the end of the number that starts at i, 0 if there is none
NumberAt(s, i, e) ==
    IF e = 0 THEN FindNumbers(s, i + 1)
    ELSE <<Sub(s, i, e - 1)>> \o FindNumbers(s, e)

RECURSIVE FindNumberPairs(_, _)
RECURSIVE PairAt(_, _, _)
RECURSIVE PairEnd(_, _, _, _, _)
\* re.findall(r'(-?\d+\.?\d*)\s+(-?\d+\.?\d*)', s) from position i.  The
\* first number must be followed by white space, so only its longest match
\* can succeed; a failed attempt restarts one character further.
FindNumberPairs(s, i) ==
    IF i > Len(s) THEN <<>> ELSE PairAt(s, i, MatchNum(s, i))

\* a is the end of the first number, 0 if no number starts at i
PairAt(s, i, a) ==
    IF a # 0 /\ IsSpace(Ch(s, a))
    THEN PairEnd(s, i, a, SkipWs(s, a), MatchNum(s, SkipWs(s, a)))
    ELSE FindNumberPairs(s, i + 1)

\* the second number is s[b..c-1], c = 0 if no number starts at b
PairEnd(s, i, a, b, c) ==
    IF c # 0
    THEN << <<Sub(s, i, a - 1), Sub(s, b, c - 1)>> >> \o FindNumberPairs(s, c)
    ELSE FindNumberPairs(s, i + 1)

RECURSIVE CollapseWs(_, _)
\* re.sub(r'\s+', ' ', s) from position i
CollapseWs(s, i) ==
    IF i > Len(s) THEN ""
    ELSE IF IsSpace(Ch(s, i)) THEN " " \o CollapseWs(s, SkipWs(s, i))
    ELSE Ch(s, i) \o CollapseWs(s, i + 1)

WktKeywords ==
    <<"POINT", "LINESTRING", "POLYGON", "MULTIPOINT", "MULTILINESTRING", "MULTIPOLYGON">>

\* re.match(r'^KEYWORD\s*\(.*\)$', u)
MatchesWktPattern(u, keyword) ==
    LET p == SkipWs(u, Len(keyword) + 1)
    IN /\ StartsWith(u, keyword)
       /\ Ch(u, p) = "("
       /\ Len(u) > p
       /\ Ch(u, Len(u)) = ")"

\* ------------------------------------------------------------------------
\* GeometryProcessor: format detection and parsing (tab tool)
\* ------------------------------------------------------------------------

\* a point of the tab tool's parsers, [lon, lat], as a JSON list value
Point(lon, lat) == JList(<<JNum(lon), JNum(lat)>>)

\* the result of a parser: a dict with the key "coordinates", or ValueError
Parsed(coords) == [raised |-> FALSE, coordinates |-> coords]

ParseRaised == [raised |-> TRUE, coordinates |-> <<>>]

RECURSIVE extract_coordinates(_)
RECURSIVE ExtractEach(_, _)
\* the inner function extract_coordinates: the lists it appends, in order
extract_coordinates(obj) ==
    IF ~IsList(obj) THEN <<>>
    ELSE IF Len(obj.list) > 0 /\ IsNumeric(obj.list[1]) THEN <<obj>>
    ELSE ExtractEach(obj.list, 1)

ExtractEach(items, i) ==
    IF i > Len(items) THEN <<>>
    ELSE extract_coordinates(items[i]) \o ExtractEach(items, i + 1)

EmptyDict == JObj(<<>>)

EmptyList == JList(<<>>)

\* feature.get('geometry', {}).get('coordinates', []) walked by
\* extract_coordinates; a feature or geometry without .get raises
FeatureCoordinates(feature) ==
    IF ~IsDict(feature) THEN ParseRaised
    ELSE LET geometry == DictGet(feature, "geometry", EmptyDict)
         IN IF ~IsDict(geometry) THEN ParseRaised
            ELSE Parsed(extract_coordinates(DictGet(geometry, "coordinates", EmptyList)))

\* the coordinates of one feature, then those of the features after it
Joined(first, rest) ==
    IF first.raised \/ rest.raised THEN ParseRaised
    ELSE Parsed(first.coordinates \o rest.coordinates)

RECURSIVE FeaturesCoordinates(_, _)
\* for feature in features: ... over a list, from index i
FeaturesCoordinates(features, i) ==
    IF i > Len(features) THEN Parsed(<<>>)
    ELSE Joined(FeatureCoordinates(features[i]), FeaturesCoordinates(features, i + 1))

\* for feature in geojson_data.get('features', []): a list is walked; an
\* empty dict or string has nothing to walk; the keys of a dict and the
\* characters of a string have no .get, and other values cannot be iterated
CollectionCoordinates(features) ==
    IF IsList(features) THEN FeaturesCoordinates(features.list, 1)
    ELSE IF IsDict(features) /\ Len(features.obj) = 0 THEN Parsed(<<>>)
    ELSE IF IsStr(features) /\ Len(features.str) = 0 THEN Parsed(<<>>)
    ELSE ParseRaised

\* the branch on geojson_type, the lower-cased type
WalkTyped(data, geojson_type) ==
    IF geojson_type = "featurecollection"
    THEN CollectionCoordinates(DictGet(data, "features", EmptyList))
    ELSE IF geojson_type = "feature" THEN FeatureCoordinates(data)
    ELSE Parsed(extract_coordinates(DictGet(data, "coordinates", EmptyList)))

\* geojson_data.get('type', '').lower() raises when the type is no string
WalkOfType(data, typ) ==
    IF IsStr(typ) THEN WalkTyped(data, Lower(typ.str)) ELSE ParseRaised

\* the walk shared by _extract_coordinates_from_geojson (tab tool) and by
\* _has_valid_coordinates / calculate_bounds (geo tool)
WalkGeojson(data) == WalkOfType(data, DictGet(data, "type", JStr("")))

extract_coordinates_from_geojson(geojson_data) == WalkGeojson(geojson_data)

IsTypedObject(data) == data.ok /\ IsDict(data.val) /\ HasKey(data.val, "type")

is_geojson(geom_str) == IsTypedObject(JsonLoads(geom_str))

is_wkt(geom_str) ==
    \E k \in 1..Len(WktKeywords) :
        MatchesWktPattern(Upper(CollapseWs(Strip(geom_str), 1)), WktKeywords[k])

is_json(geom_str) == JsonLoads(geom_str).ok

is_coordinate_pair(geom_str) == MatchesTwoNumbers(geom_str, "(", ")")

is_coordinate_array(geom_str) == MatchesTwoNumbers(geom_str, "[", "]")

GeojsonOf(data) ==
    IF data.ok THEN extract_coordinates_from_geojson(data.val) ELSE ParseRaised

parse_geojson(geom_str) == GeojsonOf(JsonLoads(geom_str))

\* a parser that keeps the first pair only
WktPointsFirst(coord_pairs) ==
    IF Len(coord_pairs) = 0 THEN ParseRaised
    ELSE Parsed(<<Point(PyFloat(coord_pairs[1][1]), PyFloat(coord_pairs[1][2]))>>)

WktPoints(coord_pairs) ==
    IF Len(coord_pairs) = 0 THEN ParseRaised
    ELSE Parsed([k \in 1..Len(coord_pairs) |->
                   Point(PyFloat(coord_pairs[k][1]), PyFloat(coord_pairs[k][2]))])

parse_wkt(geom_str) == WktPoints(FindNumberPairs(geom_str, 1))

JsonOf(data) ==
    IF ~data.ok THEN ParseRaised
    ELSE IF IsList(data.val) THEN Parsed(data.val.list)
    ELSE IF IsDict(data.val) THEN extract_coordinates_from_geojson(data.val)
    ELSE ParseRaised

parse_json(geom_str) == JsonOf(JsonLoads(geom_str))

FirstTwo(numbers) ==
    IF Len(numbers) >= 2
    THEN Parsed(<<Point(PyFloat(numbers[1]), PyFloat(numbers[2]))>>)
    ELSE ParseRaised

\* a parser that takes the first number for lat and the second for lon
ParsePairSwapped(geom_str) ==
    IF Len(FindNumbers(geom_str, 1)) >= 2
    THEN Parsed(<<Point(PyFloat(FindNumbers(geom_str, 1)[2]),
                        PyFloat(FindNumbers(geom_str, 1)[1]))>>)
    ELSE ParseRaised

parse_coordinate_pair(geom_str) == FirstTwo(FindNumbers(geom_str, 1))

parse_coordinate_array(geom_str) == FirstTwo(FindNumbers(geom_str, 1))

\* A cell of the geometry column: a string, or null (None / NaN)
NullCell == [isnull |-> TRUE, text |-> ""]

TextCell(s) == [isnull |-> FALSE, text |-> s]

Tags == {"empty", "geojson", "wkt", "json", "coordinate_pair", "coordinate_array", "unknown"}

\* what detect_geometry_format does: it returns (tag, parsed_data) or raises
Detected(tag, parsed) ==
    [raised |-> parsed.raised,
     tag |-> IF parsed.raised THEN "" ELSE tag,
     coordinates |-> parsed.coordinates]

\* the checks with the coordinate array tried before JSON
DetectArrayFirst(geom_str) ==
    IF is_geojson(geom_str) THEN Detected("geojson", parse_geojson(geom_str))
    ELSE IF is_wkt(geom_str) THEN Detected("wkt", parse_wkt(geom_str))
    ELSE IF is_coordinate_array(geom_str)
         THEN Detected("coordinate_array", parse_coordinate_array(geom_str))
    ELSE IF is_json(geom_str) THEN Detected("json", parse_json(geom_str))
    ELSE IF is_coordinate_pair(geom_str)
         THEN Detected("coordinate_pair", parse_coordinate_pair(geom_str))
    ELSE Detected("unknown", Parsed(<<>>))

\* the checks in their order, on the stripped string
DetectStripped(geom_str) ==
    IF is_geojson(geom_str) THEN Detected("geojson", parse_geojson(geom_str))
    ELSE IF is_wkt(geom_str) THEN Detected("wkt", parse_wkt(geom_str))
    ELSE IF is_json(geom_str) THEN Detected("json", parse_json(geom_str))
    ELSE IF is_coordinate_pair(geom_str)
         THEN Detected("coordinate_pair", parse_coordinate_pair(geom_str))
    ELSE IF is_coordinate_array(geom_str)
         THEN Detected("coordinate_array", parse_coordinate_array(geom_str))
    ELSE Detected("unknown", Parsed(<<>>))

detect_geometry_format(cell) ==
    IF cell.isnull \/ cell.text = "" THEN Detected("empty", Parsed(<<>>))
    ELSE DetectStripped(Strip(cell.text))

\* ------------------------------------------------------------------------
\* Bounds
\* ------------------------------------------------------------------------

RECURSIVE PyMinFrom(_, _, _)
PyMinFrom(xs, i, m) ==
    IF i > Len(xs) THEN m
    ELSE PyMinFrom(xs, i + 1, IF xs[i] < m THEN xs[i] ELSE m)

RECURSIVE PyMaxFrom(_, _, _)
PyMaxFrom(xs, i, m) ==
    IF i > Len(xs) THEN m
    ELSE PyMaxFrom(xs, i + 1, IF xs[i] > m THEN xs[i] ELSE m)

\* min() that pads the result by one unit
PyMinPadded(xs) == PyMinFrom(xs, 2, xs[1]) - Scale

\* max() that takes the first element for the greatest
PyMaxFirst(xs) == xs[1]

\* the builtins min() and max() over a non-empty list of numbers
PyMin(xs) == PyMinFrom(xs, 2, xs[1])

PyMax(xs) == PyMaxFrom(xs, 2, xs[1])

\* coord[0] and coord[1] exist and are numbers.  Anything else makes
\* calculate_bounds raise: a coord that is no list or has one component
\* fails at coord[0] / coord[1]; a component that is no number fails in
\* min()/max() against a number (TypeError) or, when every component of the
\* axis is a string, a list or None, in (min + max) / 2.
NumericPair(coord) ==
    /\ IsList(coord)
    /\ Len(coord.list) >= 2
    /\ IsNumeric(coord.list[1])
    /\ IsNumeric(coord.list[2])

Lons(coordinates) == [k \in 1..Len(coordinates) |-> NumVal(coordinates[k].list[1])]

Lats(coordinates) == [k \in 1..Len(coordinates) |-> NumVal(coordinates[k].list[2])]

\* (a + b) / 2; exact for inputs with at most two fractional digits
Half(n) == n \div 2

NoBounds == [none |-> TRUE]

BoundsRaised == [raised |-> TRUE, bounds_info |-> NoBounds]

\* "if not coordinates: raise", and the cases in which the body raises
Boundable(coordinates) ==
    /\ Len(coordinates) > 0
    /\ \A k \in 1..Len(coordinates) : NumericPair(coordinates[k])

\* the dict bounds_info of the tab tool
TabBoundsInfo(min_lon, max_lon, min_lat, max_lat) ==
    [top_left_longitude     |-> min_lon,
     top_left_latitude      |-> max_lat,
     bottom_left_longitude  |-> min_lon,
     bottom_left_latitude   |-> min_lat,
     top_right_longitude    |-> max_lon,
     top_right_latitude     |-> max_lat,
     bottom_right_longitude |-> max_lon,
     bottom_right_latitude  |-> min_lat,
     center |-> <<Half(min_lon + max_lon), Half(min_lat + max_lat)>>,
     width  |-> max_lon - min_lon,
     height |-> max_lat - min_lat]

\* GeometryProcessor.calculate_bounds (tab tool)
calculate_bounds(coordinates) ==
    IF Boundable(coordinates)
    THEN [raised |-> FALSE,
          bounds_info |-> TabBoundsInfo(PyMin(Lons(coordinates)), PyMax(Lons(coordinates)),
                                        PyMin(Lats(coordinates)), PyMax(Lats(coordinates)))]
    ELSE BoundsRaised

\* bounds_info whose corners are written [lat, lon]
GeoBoundsInfoLatLon(min_lon, max_lon, min_lat, max_lat) ==
    [bounds  |-> [min_lon |-> min_lon, max_lon |-> max_lon,
                  min_lat |-> min_lat, max_lat |-> max_lat],
     corners |-> [SW |-> <<min_lat, min_lon>>,
                  NW |-> <<max_lat, min_lon>>,
                  NE |-> <<max_lat, max_lon>>,
                  SE |-> <<min_lat, max_lon>>],
     bbox    |-> <<min_lon, min_lat, max_lon, max_lat>>,
     center  |-> <<Half(min_lon + max_lon), Half(min_lat + max_lat)>>,
     width   |-> max_lon - min_lon,
     height  |-> max_lat - min_lat]

\* the dicts corners and bounds_info of the geo tool
GeoBoundsInfo(min_lon, max_lon, min_lat, max_lat) ==
    [bounds  |-> [min_lon |-> min_lon, max_lon |-> max_lon,
                  min_lat |-> min_lat, max_lat |-> max_lat],
     corners |-> [SW |-> <<min_lon, min_lat>>,
                  NW |-> <<min_lon, max_lat>>,
                  NE |-> <<max_lon, max_lat>>,
                  SE |-> <<max_lon, min_lat>>],
     bbox    |-> <<min_lon, min_lat, max_lon, max_lat>>,
     center  |-> <<Half(min_lon + max_lon), Half(min_lat + max_lat)>>,
     width   |-> max_lon - min_lon,
     height  |-> max_lat - min_lat]

\* the bounds of the coordinates the walk collected
GeoBoundsOf(walk) ==
    IF ~walk.raised /\ Boundable(walk.coordinates)
    THEN [raised |-> FALSE,
          bounds_info |-> GeoBoundsInfo(PyMin(Lons(walk.coordinates)),
                                        PyMax(Lons(walk.coordinates)),
                                        PyMin(Lats(walk.coordinates)),
                                        PyMax(Lats(walk.coordinates)))]
    ELSE BoundsRaised

\* GeoJsonBatchProcessor.calculate_bounds (geo tool): the walk, then the
\* bounds with the named corners
geo_calculate_bounds(geojson_data) == GeoBoundsOf(WalkGeojson(geojson_data))

\* a ring that is not closed
RectangleUnclosed(corners) == <<corners.SW, corners.NW, corners.NE, corners.SE>>

\* the ring of the rectangle
RectangleCoordinates(corners) ==
    <<corners.SW, corners.NW, corners.NE, corners.SE, corners.SW>>

\* GeoJsonBatchProcessor.create_rectangle_geojson
create_rectangle_geojson(bounds_info, source_filename) ==
    [type |-> "FeatureCollection",
     features |->
       << [type |-> "Feature",
           geometry |-> [type |-> "Polygon",
                         coordinates |-> <<RectangleCoordinates(bounds_info.corners)>>],
           properties |-> [source_file |-> source_filename,
                           bounds |-> bounds_info.bounds,
                           center |-> bounds_info.center,
                           width  |-> bounds_info.width,
                           height |-> bounds_info.height,
                           bbox   |-> bounds_info.bbox]] >>]

\* ------------------------------------------------------------------------
\* Files
\* ------------------------------------------------------------------------
\* A directory entry:
\*   ext       the suffix of its name
\*   size      os.path.getsize (0 for an empty file)
\*   text      its content as text (geo tool)
\*   readable  pandas can read it (tab tool)
\*   has_geom  the geometry column is one of its columns (tab tool)
\*   rows      the cells of the geometry column, one per row (tab tool)
\*   write_ok  its output file can be written

GeoFile(ext, text, write_ok) ==
    [ext |-> ext, size |-> Len(text), text |-> text, readable |-> TRUE,
     has_geom |-> FALSE, rows |-> <<>>, write_ok |-> write_ok]

TabFile(ext, size, readable, has_geom, rows, write_ok) ==
    [ext |-> ext, size |-> size, text |-> "", readable |-> readable,
     has_geom |-> has_geom, rows |-> rows, write_ok |-> write_ok]

geo_supported_formats == <<".geojson", ".json">>

supported_excel_formats == <<".csv", ".xlsx", ".xls">>

valid_types ==
    {"point", "linestring", "polygon", "multipoint", "multilinestring",
     "multipolygon", "geometrycollection", "feature", "featurecollection"}

InSeq(x, xs) == \E k \in 1..Len(xs) : xs[k] = x

RECURSIVE GlobExt(_, _, _)
\* glob.glob(os.path.join(input_dir, "*" + ext)): the entries of the
\* directory with that suffix, as indexes into the listing, from entry i
GlobExt(listing, ext, i) ==
    IF i > Len(listing) THEN <<>>
    ELSE (IF listing[i].ext = ext THEN <<i>> ELSE <<>>) \o GlobExt(listing, ext, i + 1)

RECURSIVE Glob(_, _, _)
\* for ext in formats: files.extend(glob.glob(...)), from format k
Glob(listing, formats, k) ==
    IF k > Len(formats) THEN <<>>
    ELSE GlobExt(listing, formats[k], 1) \o Glob(listing, formats, k + 1)

\* ------------------------------------------------------------------------
\* Geo tool: validation
\* ------------------------------------------------------------------------

Invalid(msg, opened) ==
    [is_valid |-> FALSE, error_msg |-> msg, geojson_data |-> JNull, opened |-> opened]

CoordinatesFound(walk) ==
    [raised |-> walk.raised, result |-> ~walk.raised /\ Len(walk.coordinates) > 0]

has_valid_coordinates(geojson_data) == CoordinatesFound(WalkGeojson(geojson_data))

\* the checks on the coordinates; an exception of the walk is caught by
\* "except Exception"
ValidateCoordinates(data, coords) ==
    IF coords.raised THEN Invalid("read error", TRUE)
    ELSE IF ~coords.result THEN Invalid("no coordinates", TRUE)
    ELSE [is_valid |-> TRUE, error_msg |-> "", geojson_data |-> data, opened |-> TRUE]

\* the checks on the type; .lower() of a type that is no string raises
ValidateType(data, typ) ==
    IF ~IsStr(typ) THEN Invalid("read error", TRUE)
    ELSE IF Lower(typ.str) \notin valid_types THEN Invalid("invalid type", TRUE)
    ELSE ValidateCoordinates(data, has_valid_coordinates(data))

\* the checks on what json.load returned
ValidateLoaded(loaded) ==
    IF ~loaded.ok THEN Invalid("JSON format error", TRUE)
    ELSE IF ~IsDict(loaded.val) THEN Invalid("not an object", TRUE)
    ELSE IF ~HasKey(loaded.val, "type") THEN Invalid("missing type", TRUE)
    ELSE ValidateType(loaded.val, DictGet(loaded.val, "type", JStr("")))

\* (is_valid, error_msg, geojson_data); `opened` tells whether the file was
\* opened for reading on the way.  A file the scan found exists.
validate_geojson_file(file) ==
    IF ~InSeq(file.ext, geo_supported_formats) THEN Invalid("unsupported format", FALSE)
    ELSE IF file.size = 0 THEN Invalid("empty file", FALSE)
    ELSE ValidateLoaded(JsonLoads(file.text))

\* ------------------------------------------------------------------------
\* Tab tool: validation and process_excel_file
\* ------------------------------------------------------------------------

validate_excel_file(file) ==
    IF ~InSeq(file.ext, supported_excel_formats)
    THEN [is_valid |-> FALSE, error_msg |-> "unsupported format", opened |-> FALSE]
    ELSE IF file.size = 0
    THEN [is_valid |-> FALSE, error_msg |-> "empty file", opened |-> FALSE]
    ELSE IF ~file.readable
    THEN [is_valid |-> FALSE, error_msg |-> "validation failed", opened |-> TRUE]
    ELSE IF ~file.has_geom
    THEN [is_valid |-> FALSE, error_msg |-> "geometry field not found", opened |-> TRUE]
    ELSE [is_valid |-> TRUE, error_msg |-> "", opened |-> TRUE]

None == JNull

new_columns ==
    {"top_left_longitude", "top_left_latitude",
     "bottom_left_longitude", "bottom_left_latitude",
     "top_right_longitude", "top_right_latitude",
     "bottom_right_longitude", "bottom_right_latitude"}

\* new columns that start at zero
NewRowZero(cell) == [c \in new_columns |-> JNum(0)] @@ [geom |-> cell]

\* a row of the table after "for col in new_columns: df[col] = None"
NewRow(cell) == [c \in new_columns |-> None] @@ [geom |-> cell]

\* the eight df.at[index, col] = bounds_info[col] assignments
SetBounds(row, bounds_info) ==
    [c \in new_columns |-> JNum(bounds_info[c])] @@ [geom |-> row.geom]

\* a row the loop leaves as it is: "continue", or the except branch
RowSkipped(row, err) == [row |-> row, processed |-> 0, errors |-> err]

\* b is what calculate_bounds did
RowBounded(row, b) ==
    IF b.raised THEN RowSkipped(row, 1)
    ELSE [row |-> SetBounds(row, b.bounds_info), processed |-> 1, errors |-> 0]

\* the loop with an "unknown" branch that does not count the row
RowDetectedUncounted(row, d) ==
    IF d.raised THEN RowSkipped(row, 1)
    ELSE IF d.tag = "empty" THEN RowSkipped(row, 0)
    ELSE IF d.tag = "unknown" THEN RowSkipped(row, 0)
    ELSE IF Len(d.coordinates) = 0 THEN RowSkipped(row, 1)
    ELSE RowBounded(row, calculate_bounds(d.coordinates))

\* d is what detect_geometry_format did
RowDetected(row, d) ==
    IF d.raised THEN RowSkipped(row, 1)
    ELSE IF d.tag = "empty" THEN RowSkipped(row, 0)
    ELSE IF d.tag = "unknown" THEN RowSkipped(row, 1)
    ELSE IF Len(d.coordinates) = 0 THEN RowSkipped(row, 1)
    ELSE RowBounded(row, calculate_bounds(d.coordinates))

\* one iteration of "for index, row in df.iterrows()": the row afterwards
\* and what it adds to processed_count and error_count
ProcessRow(row) == RowDetected(row, detect_geometry_format(row.geom))

RECURSIVE SumField(_, _, _)
SumField(rs, i, f) == IF i > Len(rs) THEN 0 ELSE rs[i][f] + SumField(rs, i + 1, f)

NoOutput == [df |-> <<>>, processed_count |-> 0, error_count |-> 0]

\* the table and the counts after the loop over the rows
TableOutput(rs) ==
    [df |-> [i \in 1..Len(rs) |-> rs[i].row],
     processed_count |-> SumField(rs, 1, "processed"),
     error_count |-> SumField(rs, 1, "errors")]

\* process_excel_file: it raises (read error, missing geometry field, write
\* error) or writes the table with the eight columns and returns
process_excel_file(file) ==
    IF ~file.readable \/ ~file.has_geom \/ ~file.write_ok
    THEN [raised |-> TRUE, opened |-> TRUE, output |-> NoOutput]
    ELSE [raised |-> FALSE, opened |-> TRUE,
          output |-> TableOutput([i \in 1..Len(file.rows) |->
                                    ProcessRow(NewRow(file.rows[i]))])]

\* ------------------------------------------------------------------------
\* Inputs of the model
\* ------------------------------------------------------------------------

MaxFiles == 3

MaxRows == 3

MaxPts == 3

ScenarioA ==
    "{\"type\":\"Polygon\",\"coordinates\":[[[10,10],[10,20],[30,20],[30,10],[10,10]]]}"

GeoPoint == "{\"type\":\"Point\",\"coordinates\":[102.5,31.2]}"

GeoCollection ==
    "{\"type\":\"FeatureCollection\",\"features\":[{\"type\":\"Feature\",\"geometry\":{\"type\":\"LineString\",\"coordinates\":[[-5,2],[3,-4.5]]}},{\"type\":\"Feature\",\"geometry\":{\"type\":\"Point\",\"coordinates\":[7,1,99]}}]}"

\* the files a geo input directory is filled from
GeoKinds ==
    {GeoFile(".geojson", ScenarioA, TRUE),
     GeoFile(".json", GeoPoint, TRUE),
     GeoFile(".geojson", GeoCollection, TRUE),
     GeoFile(".geojson", GeoPoint, FALSE),
     GeoFile(".json", "{\"type\":\"Point\",\"coordinates\":[5]}", TRUE),
     GeoFile(".json", "", TRUE),
     GeoFile(".geojson", "{\"type\":\"Point\",", TRUE),
     GeoFile(".json", "{\"type\":\"Circle\",\"coordinates\":[1,2]}", TRUE),
     GeoFile(".geojson", "{\"type\":\"Polygon\",\"coordinates\":[]}", TRUE),
     GeoFile(".txt", "notes", TRUE)}

RowsMixed ==
    <<TextCell("POINT(1 2)"), TextCell("abcxyz"), NullCell, TextCell("(12.5, 45.25)")>>

RowsGood == <<TextCell("LINESTRING(0 0, 4 -2.5)"), TextCell(GeoPoint)>>

\* the files a tab input directory is filled from
TabKinds ==
    {TabFile(".csv", 1, TRUE, TRUE, RowsMixed, TRUE),
     TabFile(".xlsx", 1, TRUE, TRUE, RowsGood, TRUE),
     TabFile(".csv", 1, TRUE, TRUE, RowsGood, FALSE),
     TabFile(".csv", 1, TRUE, FALSE, <<>>, TRUE),
     TabFile(".xls", 1, FALSE, FALSE, <<>>, TRUE),
     TabFile(".csv", 0, TRUE, FALSE, <<>>, TRUE),
     TabFile(".txt", 1, TRUE, FALSE, <<>>, TRUE)}

\* the cells the rows of a single table are filled from
RowCells ==
    {NullCell,
     TextCell(""),
     TextCell("abcxyz"),
     TextCell("[102.5,31.2]"),
     TextCell("(12.5, 45.25)"),
     TextCell("POINT(1 2)"),
     TextCell("POINT()"),
     TextCell("123"),
     TextCell("[[1,2],[3,4.5]]"),
     TextCell(GeoPoint)}

\* the cells detect_geometry_format is called with on its own
CellSamples ==
    RowCells \cup
    {TextCell(""),
     TextCell("   "),
     TextCell("{\"type\": 5}"),
     TextCell("{\"type\":\"Feature\",\"geometry\":null}"),
     TextCell("{\"coordinates\":[[1,2],[3,4]]}"),
     TextCell("{\"a\":1}"),
     TextCell("\"abc\""),
     TextCell("null"),
     TextCell("{\"type\":\"Point\","),
     TextCell(ScenarioA),
     TextCell(GeoCollection),
     TextCell("LINESTRING(0 0, 4 -2.5)"),
     TextCell("polygon ((0 0, 1 1, 1 0, 0 0))"),
     TextCell("12.5, 45.25"),
     TextCell("[1., 2]"),
     TextCell(" (7,-8) "),
     TextCell("{\"type\":\"Point\"}"),
     TextCell("{\"type\":\"Point\",\"coordinates\":[1,2,3]}"),
     TextCell("[]"),
     TextCell("MULTIPOLYGON(((1 1, 2 1, 2 2, 1 2, 1 1)))"),
     TextCell("POLYGON((0 0, 4 0, 4 3, 0 0), (1 1, 2 1, 2 2, 1 1))"),
     TextCell("POINT(1 2 3)")}

\* numbers as they are written in a cell, with their value in 1/Scale
NumberTokens ==
    {[t |-> "12.5", v |-> 12500], [t |-> "-3", v |-> -3000],
     [t |-> "45.25", v |-> 45250], [t |-> "7.", v |-> 7000]}

\* numbers that JSON accepts as well
JsonTokens == {[t |-> "1", v |-> 1000], [t |-> "-2.5", v |-> -2500], [t |-> "30", v |-> 30000]}

\* the second numbers of the points of the longer lists
WktLats == {[t |-> "45.25", v |-> 45250], [t |-> "7.", v |-> 7000]}

JsonLats == {[t |-> "-2.5", v |-> -2500], [t |-> "30", v |-> 30000]}

\* what stands between the two numbers of a pair
PairSeps == {",", ", ", " , "}

\* "(lon, lat)" and "[lon, lat]"
PairCell(a, sep, b) == TextCell("(" \o a.t \o sep \o b.t \o ")")

BracketCell(a, sep, b) == TextCell("[" \o a.t \o sep \o b.t \o "]")

\* the keyword and the nesting a WKT body is written in
WktFrames ==
    {[open |-> "POINT(", close |-> ")"],
     [open |-> "linestring  (", close |-> ")"],
     [open |-> "MULTIPOLYGON(((", close |-> ")))"]}

RECURSIVE WktBody(_, _)
\* "x y, x y, ..." of the points P from index i
WktBody(P, i) ==
    IF i > Len(P) THEN ""
    ELSE P[i][1].t \o " " \o P[i][2].t \o (IF i < Len(P) THEN ", " ELSE "") \o WktBody(P, i + 1)

WktCell(frame, P) == TextCell(frame.open \o WktBody(P, 1) \o frame.close)

RECURSIVE ArrayBody(_, _)
\* "[x,y],[x,y],..." of the points P from index i
ArrayBody(P, i) ==
    IF i > Len(P) THEN ""
    ELSE "[" \o P[i][1].t \o "," \o P[i][2].t \o "]" \o (IF i < Len(P) THEN "," ELSE "")
         \o ArrayBody(P, i + 1)

\* a bare JSON array: one point (depth 1), a list of points (depth 2), a
\* list with one ring (depth 3)
ArrayCell(depth, P) ==
    IF depth = 1 THEN TextCell(ArrayBody(P, 1))
    ELSE IF depth = 2 THEN TextCell("[" \o ArrayBody(P, 1) \o "]")
    ELSE TextCell("[[" \o ArrayBody(P, 1) \o "]]")

\* the values of the written points
ValuesOf(P) == [k \in 1..Len(P) |-> <<P[k][1].v, P[k][2].v>>]

\* the longitudes and latitudes the point lists are filled from
SampleLons == {-2 * Scale, 0, 1500, 3 * Scale}

SampleLats == {-1 * Scale, 250, 2 * Scale}

SamplePoints == SampleLons \X SampleLats

SeqsUpTo(S, n) == UNION {[1..k -> S] : k \in 0..n}

\* how the command line and the paths are when main starts
BadEnvs == {"bad_args", "no_input", "input_not_dir", "output_dir_fails"}

\* ------------------------------------------------------------------------
\* State
\* ------------------------------------------------------------------------

VARIABLES
    tool,             \* "geo" or "tab": which of the two programs runs
    env,              \* the command line and paths: "ok" or one of BadEnvs
    dir,              \* the listing of the input directory
    pc,               \* the position in main / process_directory
    exit_code,        \* the process's exit code; -1 while it runs
    files,            \* geojson_files / excel_files (indexes into dir)
    idx,              \* the position of the running loop
    valid_files,
    error_files,      \* self.error_files
    success_files,    \* self.success_files
    processed_count,  \* self.processed_count
    outputs,          \* the output files written, in order
    report,           \* the validation results printed, in order
    reads,            \* how often each entry of dir was opened for reading
    fn                \* the function under test (function-level runs)

vars == <<tool, env, dir, pc, exit_code, files, idx, valid_files, error_files,
          success_files, processed_count, outputs, report, reads, fn>>

inputs == <<tool, env, dir>>

accumulators == <<error_files, success_files, processed_count>>

NoFn == [pc |-> "off"]

\* the state right after the processor's __init__
Constructed ==
    /\ pc = "main"
    /\ exit_code = -1
    /\ files = <<>>
    /\ idx = 0
    /\ valid_files = <<>>
    /\ error_files = <<>>
    /\ success_files = <<>>
    /\ processed_count = 0
    /\ outputs = <<>>
    /\ report = <<>>
    /\ reads = [i \in 1..Len(dir) |-> 0]

Init ==
    /\ \/ /\ env \in BadEnvs
          /\ tool \in {"geo", "tab"}
          /\ dir = <<>>
       \/ /\ env = "ok"
          /\ tool = "geo"
          /\ dir \in SeqsUpTo(GeoKinds, MaxFiles)
       \/ /\ env = "ok"
          /\ tool = "tab"
          /\ dir \in SeqsUpTo(TabKinds, MaxFiles)
    /\ fn = NoFn
    /\ Constructed

\* one table with any rows
InitRows ==
    /\ env = "ok"
    /\ tool = "tab"
    /\ \E rows \in SeqsUpTo(RowCells, MaxRows) :
          dir = <<TabFile(".csv", 1, TRUE, TRUE, rows, TRUE)>>
    /\ fn = NoFn
    /\ Constructed

\* ------------------------------------------------------------------------
\* main and process_directory
\* ------------------------------------------------------------------------

Exit(code) ==
    /\ pc' = "done"
    /\ exit_code' = code

\* main up to the call of process_directory: sys.exit(1) on a bad command
\* line, a missing input path, an input path that is no directory, or an
\* output directory that cannot be created
Main(t) ==
    /\ tool = t
    /\ pc = "main"
    /\ IF env \in BadEnvs THEN Exit(1) ELSE pc' = "scan" /\ exit_code' = exit_code
    /\ UNCHANGED <<inputs, files, idx, valid_files, accumulators, outputs, report, reads, fn>>

\* the scan of process_directory; with no file found it prints and returns,
\* main prints its closing line and the process ends with code 0
Scan(t, formats) ==
    /\ tool = t
    /\ pc = "scan"
    /\ files' = Glob(dir, formats, 1)
    /\ IF files' = <<>>
       THEN Exit(0) /\ idx' = idx
       ELSE pc' = "validate" /\ idx' = 1 /\ exit_code' = exit_code
    /\ UNCHANGED <<inputs, valid_files, accumulators, outputs, report, reads, fn>>

\* the end of the validation loop: sys.exit(1) when any file failed
Gate(t) ==
    /\ tool = t
    /\ pc = "validate"
    /\ idx > Len(files)
    /\ IF error_files # <<>>
       THEN Exit(1) /\ idx' = idx
       ELSE pc' = "process" /\ idx' = 1 /\ exit_code' = exit_code
    /\ UNCHANGED <<inputs, files, valid_files, accumulators, outputs, report, reads, fn>>

\* print_summary, the return to main and the end of the process
Summary(t) ==
    /\ tool = t
    /\ pc = "process"
    /\ idx > Len(valid_files)
    /\ Exit(0)
    /\ UNCHANGED <<inputs, files, idx, valid_files, accumulators, outputs, report, reads, fn>>

Opened(path) == [reads EXCEPT ![path] = @ + 1]

GeoMain == Main("geo")

GeoScan == Scan("geo", geo_supported_formats)

\* what the validation loop does with the result v for file_path
Validated(file_path, v, data) ==
    /\ IF v.is_valid
       THEN /\ valid_files' = Append(valid_files, [path |-> file_path, data |-> data])
            /\ error_files' = error_files
       ELSE /\ error_files' = Append(error_files, [path |-> file_path, msg |-> v.error_msg])
            /\ valid_files' = valid_files
    /\ report' = Append(report, [path |-> file_path, ok |-> v.is_valid])
    /\ reads' = IF v.opened THEN Opened(file_path) ELSE reads

GeoValidated(file_path, v) == Validated(file_path, v, v.geojson_data)

\* one iteration of the validation loop of the geo tool
GeoValidate ==
    /\ tool = "geo"
    /\ pc = "validate"
    /\ idx <= Len(files)
    /\ GeoValidated(files[idx], validate_geojson_file(dir[files[idx]]))
    /\ idx' = idx + 1
    /\ UNCHANGED <<inputs, pc, exit_code, files, success_files, processed_count, outputs, fn>>

\* a validation loop that is not followed by sys.exit(1)
GeoGateLenient ==
    /\ tool = "geo"
    /\ pc = "validate"
    /\ idx > Len(files)
    /\ pc' = "process"
    /\ idx' = 1
    /\ UNCHANGED <<inputs, exit_code, files, valid_files, accumulators, outputs, report,
                   reads, fn>>

GeoGate == Gate("geo")

\* the except branch of the processing loop
Failed(file_path, msg) ==
    /\ error_files' = Append(error_files, [path |-> file_path, msg |-> msg])
    /\ UNCHANGED <<success_files, processed_count, outputs>>

\* a file processed whose count is not incremented
SucceededUncounted(file_path, content) ==
    /\ outputs' = Append(outputs, [path |-> file_path, content |-> content])
    /\ success_files' = Append(success_files, file_path)
    /\ processed_count' = processed_count
    /\ error_files' = error_files

\* a file processed: its output is written, then the two accumulators grow
Succeeded(file_path, content) ==
    /\ outputs' = Append(outputs, [path |-> file_path, content |-> content])
    /\ success_files' = Append(success_files, file_path)
    /\ processed_count' = processed_count + 1
    /\ error_files' = error_files

\* save_rectangle_geojson raises when the file cannot be written
GeoSaved(file_path, rectangle_geojson) ==
    IF dir[file_path].write_ok
    THEN Succeeded(file_path, rectangle_geojson)
    ELSE Failed(file_path, "save")

\* b is what calculate_bounds did
GeoProcessed(file_path, b) ==
    IF b.raised
    THEN Failed(file_path, "bounds")
    ELSE GeoSaved(file_path, create_rectangle_geojson(b.bounds_info, file_path))

\* one iteration of the processing loop of the geo tool
GeoProcess ==
    /\ tool = "geo"
    /\ pc = "process"
    /\ idx <= Len(valid_files)
    /\ GeoProcessed(valid_files[idx].path, geo_calculate_bounds(valid_files[idx].data))
    /\ idx' = idx + 1
    /\ UNCHANGED <<inputs, pc, exit_code, files, valid_files, report, reads, fn>>

GeoSummary == Summary("geo")

TabMain == Main("tab")

TabScan == Scan("tab", supported_excel_formats)

\* one iteration of the validation loop of the tab tool
TabValidate ==
    /\ tool = "tab"
    /\ pc = "validate"
    /\ idx <= Len(files)
    /\ Validated(files[idx], validate_excel_file(dir[files[idx]]), JNull)
    /\ idx' = idx + 1
    /\ UNCHANGED <<inputs, pc, exit_code, files, success_files, processed_count, outputs, fn>>

\* a validation loop that is not followed by sys.exit(1)
TabGateLenient ==
    /\ tool = "tab"
    /\ pc = "validate"
    /\ idx > Len(files)
    /\ pc' = "process"
    /\ idx' = 1
    /\ UNCHANGED <<inputs, exit_code, files, valid_files, accumulators, outputs, report,
                   reads, fn>>

TabGate == Gate("tab")

\* r is what process_excel_file did
TabProcessed(file_path, r) ==
    /\ IF r.raised THEN Failed(file_path, "process") ELSE Succeeded(file_path, r.output)
    /\ reads' = IF r.opened THEN Opened(file_path) ELSE reads

\* one iteration of the processing loop of the tab tool
TabProcess ==
    /\ tool = "tab"
    /\ pc = "process"
    /\ idx <= Len(valid_files)
    /\ TabProcessed(valid_files[idx].path, process_excel_file(dir[valid_files[idx].path]))
    /\ idx' = idx + 1
    /\ UNCHANGED <<inputs, pc, exit_code, files, valid_files, report, fn>>

TabSummary == Summary("tab")

NextGeo == GeoMain \/ GeoScan \/ GeoValidate \/ GeoGate \/ GeoProcess \/ GeoSummary

NextTab == TabMain \/ TabScan \/ TabValidate \/ TabGate \/ TabProcess \/ TabSummary

Next == NextGeo \/ NextTab

Spec == Init /\ [][Next]_vars

SpecRows == InitRows /\ [][NextTab]_vars

\* ------------------------------------------------------------------------
\* The functions on their own: detect_geometry_format and calculate_bounds
\* called directly on a constructed processor
\* ------------------------------------------------------------------------

\* a list of points as the parsers hand it to calculate_bounds
PointList(P) == [k \in 1..Len(P) |-> Point(P[k][1], P[k][2])]

\* a geometry dict that holds the points
PointsGeojson(P) ==
    JObj(<<[k |-> "type", v |-> JStr("MultiPoint")],
           [k |-> "coordinates", v |-> JList(PointList(P))]>>)

\* calculate_bounds of the tool t over the points P
BoundsCall(t, P) ==
    IF t = "geo" THEN geo_calculate_bounds(PointsGeojson(P))
    ELSE calculate_bounds(PointList(P))

\* [min_lon, min_lat, max_lon, max_lat] as the bounds_info of tool t has it
BboxOf(t, info) ==
    IF t = "geo" THEN info.bbox
    ELSE <<info.bottom_left_longitude, info.bottom_left_latitude,
           info.top_right_longitude, info.top_right_latitude>>

\* the corners SW, NW, NE, SE as the bounds_info of tool t has them
CornersOf(t, info) ==
    IF t = "geo"
    THEN <<info.corners.SW, info.corners.NW, info.corners.NE, info.corners.SE>>
    ELSE <<<<info.bottom_left_longitude, info.bottom_left_latitude>>,
           <<info.top_left_longitude, info.top_left_latitude>>,
           <<info.top_right_longitude, info.top_right_latitude>>,
           <<info.bottom_right_longitude, info.bottom_right_latitude>>>>

\* a call of detect_geometry_format; `made` and `points` tell how the cell
\* was written
DetectCall(cell, made, points) ==
    [pc |-> "call", op |-> "detect_geometry_format", cell |-> cell,
     made |-> made, points |-> points]

InitFn ==
    /\ env = "ok"
    /\ dir = <<>>
    /\ Constructed
    /\ \/ /\ tool = "tab"
          /\ \E cell \in CellSamples : fn = DetectCall(cell, "sample", <<>>)
       \/ /\ tool = "tab"
          /\ \E a, b \in NumberTokens, sep \in PairSeps :
                \/ fn = DetectCall(PairCell(a, sep, b), "pair", <<<<a.v, b.v>>>>)
                \/ fn = DetectCall(BracketCell(a, sep, b), "bracket", <<<<a.v, b.v>>>>)
       \/ /\ tool = "tab"
          /\ \E frame \in WktFrames, P \in SeqsUpTo(JsonTokens \X WktLats, MaxPts) :
                fn = DetectCall(WktCell(frame, P), "wkt", ValuesOf(P))
       \/ /\ tool = "tab"
          /\ \E depth \in 1..3, P \in SeqsUpTo(JsonTokens \X JsonLats, MaxPts) :
                /\ Len(P) >= 1
                /\ depth = 1 => Len(P) = 1
                /\ fn = DetectCall(ArrayCell(depth, P), "array", ValuesOf(P))
       \/ /\ tool \in {"geo", "tab"}
          /\ \E P \in SeqsUpTo(SamplePoints, MaxPts) :
                fn = [pc |-> "call", op |-> "calculate_bounds", points |-> P]

\* detect_geometry_format(cell): it assigns to no attribute of the processor
FnDetect ==
    /\ fn.pc = "call"
    /\ fn.op = "detect_geometry_format"
    /\ fn' = [pc |-> "done", op |-> fn.op, cell |-> fn.cell,
              made |-> fn.made, points |-> fn.points,
              result |-> detect_geometry_format(fn.cell)]
    /\ UNCHANGED <<inputs, pc, exit_code, files, idx, valid_files, accumulators,
                   outputs, report, reads>>

\* the row loop after the detection: calculate_bounds over the coordinates
\* of a tag that is neither empty nor unknown
FnParsedBounds ==
    /\ fn.pc = "done"
    /\ fn.op = "detect_geometry_format"
    /\ ~fn.result.raised
    /\ fn.result.tag \notin {"empty", "unknown"}
    /\ Len(fn.result.coordinates) > 0
    /\ fn' = [pc |-> "row_bounded", op |-> fn.op, cell |-> fn.cell,
              made |-> fn.made, points |-> fn.points, result |-> fn.result,
              bounds |-> calculate_bounds(fn.result.coordinates)]
    /\ UNCHANGED <<inputs, pc, exit_code, files, idx, valid_files, accumulators,
                   outputs, report, reads>>

\* calculate_bounds(points)
FnBounds ==
    /\ fn.pc = "call"
    /\ fn.op = "calculate_bounds"
    /\ fn' = [pc |-> "bounded", op |-> fn.op, points |-> fn.points,
              first |-> BoundsCall(tool, fn.points)]
    /\ UNCHANGED <<inputs, pc, exit_code, files, idx, valid_files, accumulators,
                   outputs, report, reads>>

\* calculate_bounds again, over the four corners of the first result
FnCorners ==
    /\ fn.pc = "bounded"
    /\ ~fn.first.raised
    /\ fn' = [pc |-> "done", op |-> fn.op, points |-> fn.points, first |-> fn.first,
              second |-> BoundsCall(tool, CornersOf(tool, fn.first.bounds_info))]
    /\ UNCHANGED <<inputs, pc, exit_code, files, idx, valid_files, accumulators,
                   outputs, report, reads>>

NextFn == FnDetect \/ FnParsedBounds \/ FnBounds \/ FnCorners

SpecFn == InitFn /\ [][NextFn]_vars

\* ------------------------------------------------------------------------
\* Properties of the batch runs (Spec)
\* ------------------------------------------------------------------------

\* a validation result was reported for every discovered file, in order
ReportedAll ==
    /\ Len(report) = Len(files)
    /\ \A i \in 1..Len(report) : report[i].path = files[i]

SomeFailedValidation == \E i \in 1..Len(report) : ~report[i].ok

HasOutput(path) == \E o \in 1..Len(outputs) : outputs[o].path = path

\* C1: GeoJSON batch mode is fail-closed.  Processing starts, and an output
\* exists, only after every discovered file has its validation result; once
\* a file has failed validation no output is ever written, processing is
\* never entered, and the process ends with exit code 1 with a result
\* reported for every discovered file.
C1_FailClosed ==
    tool = "geo" =>
       /\ (pc = "process" \/ outputs # <<>> \/ success_files # <<>>) => ReportedAll
       /\ SomeFailedValidation =>
             /\ outputs = <<>>
             /\ success_files = <<>>
             /\ processed_count = 0
             /\ pc # "process"
             /\ pc = "done" => (exit_code = 1 /\ ReportedAll)

\* three files, the first of them invalid, all three reported, exit code 1
C1_Witness ==
    /\ tool = "geo"
    /\ pc = "done"
    /\ Len(report) = 3
    /\ ~report[1].ok
    /\ report[2].ok
    /\ report[3].ok
    /\ exit_code = 1

\* the geometry column is missing from the discovered file
MissingGeometryColumn(file) == file.size > 0 /\ file.readable /\ ~file.has_geom

\* the file has no file-level error: it is valid and its output can be written
NoFileLevelError(file) == validate_excel_file(file).is_valid /\ file.write_ok

\* C2 as stated: in tabular batch mode a file-level error in one file aborts
\* only that file; every other discovered file without a file-level error
\* has its output written when the run ends.
C2_OnlyThatFile ==
    (tool = "tab" /\ env = "ok" /\ pc = "done") =>
       ((\E j \in 1..Len(files) : MissingGeometryColumn(dir[files[j]])) =>
          \A i \in 1..Len(files) : NoFileLevelError(dir[files[i]]) => HasOutput(files[i]))

\* C2 amended: in tabular batch mode a discovered file that fails
\* validation aborts the whole batch (no output, exit code 1); when every
\* discovered file passed validation, a file whose processing raises is the
\* only one aborted: every file whose output can be written has its output,
\* the failing file is in the error list, and the exit code is 0.
C2_ValidationAbortsBatch ==
    (tool = "tab" /\ env = "ok" /\ pc = "done" /\ files # <<>>) =>
       /\ ReportedAll
       /\ SomeFailedValidation => (outputs = <<>> /\ exit_code = 1)
       /\ ~SomeFailedValidation =>
             /\ exit_code = 0
             /\ \A i \in 1..Len(files) :
                   HasOutput(files[i]) <=> dir[files[i]].write_ok
             /\ Len(error_files) + Len(outputs) = Len(files)

\* all files valid, one output cannot be written, another file has its output
C2_Witness ==
    /\ tool = "tab"
    /\ pc = "done"
    /\ ~SomeFailedValidation
    /\ \E i, j \in 1..Len(files) :
          /\ ~dir[files[i]].write_ok
          /\ i < j
          /\ HasOutput(files[j])

\* the setup-level errors of the claim
SetupError ==
    \/ env \in {"no_input", "input_not_dir"}
    \/ env = "ok" /\ files = <<>>
    \/ env = "ok" /\ tool = "geo" /\ SomeFailedValidation

\* C6 as stated: the process ends with a non-zero exit code on every
\* setup-level error, in both tools: input path missing or not a directory,
\* no matching input file, or (GeoJSON mode) a file failing validation.
C6_NonZeroExit == (pc = "done" /\ SetupError) => exit_code # 0

\* lon and lat of the points a discovered GeoJSON file holds
PointsOfFile(path) == WalkGeojson(JsonLoads(dir[path].text).val).coordinates

Least(xs) == CHOOSE m \in {xs[i] : i \in 1..Len(xs)} : \A i \in 1..Len(xs) : m <= xs[i]

Greatest(xs) == CHOOSE m \in {xs[i] : i \in 1..Len(xs)} : \A i \in 1..Len(xs) : m >= xs[i]

\* [min_lon, min_lat, max_lon, max_lat] of a list of points
Envelope(points) ==
    <<Least(Lons(points)), Least(Lats(points)),
      Greatest(Lons(points)), Greatest(Lats(points))>>

\* the closed ring SW, NW, NE, SE, SW of the bbox b
RingOf(b) ==
    <<<<b[1], b[2]>>, <<b[1], b[4]>>, <<b[3], b[4]>>, <<b[3], b[2]>>, <<b[1], b[2]>>>>

\* the feature is a Polygon with the single ring of b, bbox b and the
\* midpoints of b for center
IsRectangleOf(feature, b) ==
    /\ feature.type = "Feature"
    /\ feature.geometry.type = "Polygon"
    /\ feature.geometry.coordinates = <<RingOf(b)>>
    /\ feature.properties.bbox = b
    /\ 2 * feature.properties.center[1] = b[1] + b[3]
    /\ 2 * feature.properties.center[2] = b[2] + b[4]

IsRectangleCollection(content, b) ==
    /\ content.type = "FeatureCollection"
    /\ Len(content.features) = 1
    /\ IsRectangleOf(content.features[1], b)

ScenarioABbox == <<10 * Scale, 10 * Scale, 30 * Scale, 20 * Scale>>

ScenarioARing ==
    <<<<10 * Scale, 10 * Scale>>, <<10 * Scale, 20 * Scale>>, <<30 * Scale, 20 * Scale>>,
      <<30 * Scale, 10 * Scale>>, <<10 * Scale, 10 * Scale>>>>

IsScenarioAOutput(content) ==
    /\ content.features[1].geometry.coordinates = <<ScenarioARing>>
    /\ content.features[1].properties.bbox = ScenarioABbox
    /\ content.features[1].properties.center = <<20 * Scale, 15 * Scale>>

\* C9: in GeoJSON mode every output is a FeatureCollection with exactly one
\* Polygon feature whose single ring is [SW, NW, NE, SE, SW] of the envelope
\* of the input's points, whose bbox is [min_lon, min_lat, max_lon, max_lat]
\* and whose center is the pair of axis midpoints; the Polygon of Scenario A
\* gives bbox [10,10,30,20], center [20,15] and the ring it started from.
C9_RectangleOutput ==
    tool = "geo" =>
       \A o \in 1..Len(outputs) :
          /\ IsRectangleCollection(outputs[o].content, Envelope(PointsOfFile(outputs[o].path)))
          /\ dir[outputs[o].path].text = ScenarioA => IsScenarioAOutput(outputs[o].content)

\* the output of Scenario A and the output of a file with several features
C9_Witness ==
    /\ tool = "geo"
    /\ pc = "done"
    /\ \E o \in 1..Len(outputs) : dir[outputs[o].path].text = ScenarioA
    /\ \E o \in 1..Len(outputs) : dir[outputs[o].path].text = GeoCollection

\* no output path was written twice
WrittenOnce ==
    \A o1, o2 \in 1..Len(outputs) : outputs[o1].path = outputs[o2].path => o1 = o2

\* C16 as stated: during one batch run, in both modes, no input path is
\* opened for reading a second time and each output is written at most once.
C16_ReadOnce ==
    /\ \A i \in 1..Len(dir) : reads[i] <= 1
    /\ WrittenOnce

\* the run went through validation and processing to its end
RanToEnd == env = "ok" /\ pc = "done" /\ files # <<>>

InSuccess(path) == \E s \in 1..Len(success_files) : success_files[s] = path

InErrors(path) == \E e \in 1..Len(error_files) : error_files[e].path = path

\* C17: in both batch drivers, after every step of process_directory,
\* processed_count = len(success_files) and no file is in both
\* success_files and error_files; when the processing loop has finished,
\* every validated file is in exactly one of the two lists, the files with
\* an output being the successes: a file whose processing raised is in
\* error_files and the files after it were still processed.
C17_Accumulators ==
    /\ processed_count = Len(success_files)
    /\ \A i \in 1..Len(dir) : ~(InSuccess(i) /\ InErrors(i))
    /\ (RanToEnd /\ exit_code = 0) =>
          /\ Len(success_files) + Len(error_files) = Len(valid_files)
          /\ \A k \in 1..Len(valid_files) :
                /\ InSuccess(valid_files[k].path) # InErrors(valid_files[k].path)
                /\ InSuccess(valid_files[k].path) <=> HasOutput(valid_files[k].path)

\* the first validated file failed in processing and a later one succeeded
C17_Witness ==
    /\ RanToEnd
    /\ exit_code = 0
    /\ Len(valid_files) = 3
    /\ InErrors(valid_files[1].path)
    /\ InSuccess(valid_files[2].path)
    /\ InSuccess(valid_files[3].path)
    /\ processed_count = 2

\* ------------------------------------------------------------------------
\* Properties of the rows of one table (SpecRows)
\* ------------------------------------------------------------------------

\* the rows of the table as they were read
InputRows == dir[1].rows

\* null and the empty string
EmptyCells == {NullCell, TextCell("")}

\* geometry strings that are malformed or not recognized
MalformedCells == {TextCell("abcxyz"), TextCell("POINT()"), TextCell("123")}

\* the bracketed coordinate pair of Scenario C
BracketedPair == TextCell("[102.5,31.2]")

\* geometry strings that hold a well-formed geometry
WellFormedCells ==
    {TextCell("(12.5, 45.25)"), TextCell("POINT(1 2)"),
     TextCell("[[1,2],[3,4.5]]"), TextCell(GeoPoint)}

\* the cells the row loop counts as errors
CountedCells == MalformedCells \cup {BracketedPair}

RowsIn(cells) == {i \in 1..Len(InputRows) : InputRows[i] \in cells}

AllUnset(row) == \A c \in new_columns : row[c] = None

AllSet(row) == \A c \in new_columns : row[c] # None /\ IsKind(row[c], "num")

\* the file of the table was processed and its output written
TableDone == pc = "done" /\ Len(outputs) = 1 /\ success_files = <<1>>

\* what process_excel_file wrote
Written == outputs[1].content

\* C3: a row whose geometry string is malformed or unrecognized adds exactly
\* one to the file's row-error count and keeps its eight new fields unset,
\* and the file goes on: the rows after it are processed (a well-formed row
\* has its fields set wherever it stands), the output is written with every
\* row, and the error count is the number of rows the loop rejected.
C3_BadRowCounted ==
    pc = "done" =>
       /\ TableDone
       /\ Len(Written.df) = Len(InputRows)
       /\ \A i \in RowsIn(MalformedCells) : AllUnset(Written.df[i])
       /\ \A i \in RowsIn(WellFormedCells) : AllSet(Written.df[i])
       /\ Written.error_count = Cardinality(RowsIn(CountedCells))
       /\ Written.processed_count = Cardinality(RowsIn(WellFormedCells))

\* a bad first row, a bad last row and a well-formed row between them
C3_Witness ==
    /\ TableDone
    /\ Len(InputRows) = 3
    /\ InputRows[1] = TextCell("abcxyz")
    /\ InputRows[2] = TextCell("POINT(1 2)")
    /\ InputRows[3] = TextCell("POINT()")
    /\ Written.error_count = 2
    /\ AllSet(Written.df[2])

LongitudeColumns ==
    {"top_left_longitude", "bottom_left_longitude",
     "top_right_longitude", "bottom_right_longitude"}

LatitudeColumns == new_columns \ LongitudeColumns

\* C4 as stated: a row whose geometry cell is the bracketed pair
\* "[102.5,31.2]" is processed successfully: its four longitude fields are
\* 102.5, its four latitude fields are 31.2, and it is no row error.
C4_BracketedPairRow ==
    pc = "done" =>
       /\ \A i \in RowsIn({BracketedPair}) :
             /\ \A c \in LongitudeColumns : Written.df[i][c] = JNum(102500)
             /\ \A c \in LatitudeColumns : Written.df[i][c] = JNum(31200)
       /\ Written.error_count = Cardinality(RowsIn(MalformedCells))

\* C10: after process_excel_file the eight bounds fields of every row are
\* all set to numbers or all unset (None, never zero in place of it, never
\* some of them); a row whose geometry is null or the empty string has all
\* eight unset and is in neither count: the processed rows and the error
\* rows together are the rows that are not empty.
C10_AllOrNothing ==
    pc = "done" =>
       /\ TableDone
       /\ \A i \in 1..Len(Written.df) : AllSet(Written.df[i]) \/ AllUnset(Written.df[i])
       /\ \A i \in RowsIn(EmptyCells) : AllUnset(Written.df[i])
       /\ Written.processed_count =
             Cardinality({i \in 1..Len(Written.df) : AllSet(Written.df[i])})
       /\ Written.processed_count + Written.error_count =
             Len(InputRows) - Cardinality(RowsIn(EmptyCells))

\* a null row, an empty row and a set row in one table
C10_Witness ==
    /\ TableDone
    /\ Len(InputRows) = 3
    /\ InputRows[1] = NullCell
    /\ InputRows[2] = TextCell("(12.5, 45.25)")
    /\ InputRows[3] = TextCell("")
    /\ AllSet(Written.df[2])
    /\ Written.error_count = 0

\* ------------------------------------------------------------------------
\* Properties of the functions (SpecFn)
\* ------------------------------------------------------------------------

Returned(op) == fn.pc = "done" /\ fn.op = op

\* the attributes of the processor are as __init__ left them
ProcessorUntouched ==
    /\ error_files = <<>>
    /\ success_files = <<>>
    /\ processed_count = 0

\* C5 as stated: detect_geometry_format is total and side-effect-free: for
\* every input string it returns exactly one of the seven tags, never
\* raises, and changes no processor state.
C5_DetectionTotal ==
    Returned("detect_geometry_format") =>
       /\ ~fn.result.raised
       /\ fn.result.tag \in Tags
       /\ ProcessorUntouched

Bounded == fn.op = "calculate_bounds" /\ fn.pc \in {"bounded", "done"}

Encloses(b, P) ==
    \A k \in 1..Len(P) : b[1] <= P[k][1] /\ P[k][1] <= b[3] /\ b[2] <= P[k][2] /\ P[k][2] <= b[4]

Attained(b, P) ==
    /\ \E k \in 1..Len(P) : P[k][1] = b[1]
    /\ \E k \in 1..Len(P) : P[k][2] = b[2]
    /\ \E k \in 1..Len(P) : P[k][1] = b[3]
    /\ \E k \in 1..Len(P) : P[k][2] = b[4]

Extent(b, info) ==
    /\ b[1] <= b[3]
    /\ b[2] <= b[4]
    /\ info.width = b[3] - b[1]
    /\ info.height = b[4] - b[2]
    /\ info.width >= 0
    /\ info.height >= 0

\* C7: for every non-empty list of points P, calculate_bounds (of either
\* tool) returns bounds with min_lon <= p.lon <= max_lon and
\* min_lat <= p.lat <= max_lat for every p of P, each of the four bounds is
\* the coordinate of some point of P, min <= max, and width, height >= 0.
C7_Envelope ==
    (Bounded /\ fn.points # <<>>) =>
       /\ ~fn.first.raised
       /\ Encloses(BboxOf(tool, fn.first.bounds_info), fn.points)
       /\ Attained(BboxOf(tool, fn.first.bounds_info), fn.points)
       /\ Extent(BboxOf(tool, fn.first.bounds_info), fn.first.bounds_info)

\* three points none of which holds two of the four bounds
C7_Witness ==
    /\ Bounded
    /\ fn.points = <<<<0, 2 * Scale>>, <<3 * Scale, 250>>, <<-2 * Scale, -1 * Scale>>>>
    /\ BboxOf(tool, fn.first.bounds_info) = <<-2 * Scale, -1 * Scale, 3 * Scale, 2 * Scale>>

\* C8: for every non-empty list of points P, calculate_bounds over the
\* corners SW, NW, NE, SE of calculate_bounds(P) returns the same min_lon,
\* min_lat, max_lon, max_lat.
C8_CornersIdempotent ==
    (Returned("calculate_bounds") /\ fn.points # <<>>) =>
       /\ ~fn.second.raised
       /\ BboxOf(tool, fn.second.bounds_info) = BboxOf(tool, fn.first.bounds_info)

\* the corners of a rectangle that is no square went through the geo tool
C8_Witness ==
    /\ Returned("calculate_bounds")
    /\ tool = "geo"
    /\ Len(fn.points) = 3
    /\ fn.first.bounds_info.width = 5 * Scale
    /\ fn.first.bounds_info.height = 3 * Scale
    /\ fn.second.bounds_info.bbox = <<-2 * Scale, -1 * Scale, 3 * Scale, 2 * Scale>>

\* the parse succeeded: a tag other than empty and unknown was returned
ParseSucceeded ==
    /\ Returned("detect_geometry_format")
    /\ ~fn.result.raised
    /\ fn.result.tag \notin {"empty", "unknown"}

\* a list of exactly two numbers
IsPoint2(coord) ==
    /\ IsList(coord)
    /\ Len(coord.list) = 2
    /\ IsKind(coord.list[1], "num")
    /\ IsKind(coord.list[2], "num")

\* C11 as stated: whenever parsing a geometry string succeeds, the returned
\* coordinate list has at least one point and every point in it has exactly
\* two numeric components, for all five parseable formats.
C11_ParsedPoints ==
    ParseSucceeded =>
       /\ Len(fn.result.coordinates) >= 1
       /\ \A k \in 1..Len(fn.result.coordinates) : IsPoint2(fn.result.coordinates[k])

\* the row loop went on to calculate_bounds and that returned
RowBoundsReturned == fn.op = "detect_geometry_format" /\ fn.pc = "row_bounded"

\* the only point the cell was written from
OnlyPoint == fn.points[1]

\* C12: a parenthesized pair "(lon, lat)" is tagged coordinate_pair and
\* parses to the single point [lon, lat]; the bounds of that point have
\* width = height = 0 and all four corners equal to (lon, lat).
C12_PairRoundTrip ==
    (fn.op = "detect_geometry_format" /\ fn.made = "pair") =>
       /\ fn.pc = "done" =>
             /\ ~fn.result.raised
             /\ fn.result.tag = "coordinate_pair"
             /\ fn.result.coordinates = <<Point(OnlyPoint[1], OnlyPoint[2])>>
       /\ fn.pc = "row_bounded" =>
             /\ ~fn.bounds.raised
             /\ fn.bounds.bounds_info.width = 0
             /\ fn.bounds.bounds_info.height = 0
             /\ CornersOf("tab", fn.bounds.bounds_info)
                   = <<OnlyPoint, OnlyPoint, OnlyPoint, OnlyPoint>>

\* "(12.5, 45.25)" went through detection and bounds
C12_Witness ==
    /\ RowBoundsReturned
    /\ fn.made = "pair"
    /\ fn.cell = TextCell("(12.5, 45.25)")
    /\ fn.bounds.bounds_info.top_left_longitude = 12500
    /\ fn.bounds.bounds_info.top_left_latitude = 45250

\* the tag is the first category of the fixed order that matches s
FirstMatch(s, tag) ==
    \/ tag = "geojson" /\ is_geojson(s)
    \/ tag = "wkt" /\ ~is_geojson(s) /\ is_wkt(s)
    \/ tag = "json" /\ ~is_geojson(s) /\ ~is_wkt(s) /\ is_json(s)
    \/ tag = "coordinate_pair" /\ ~is_wkt(s) /\ ~is_json(s) /\ is_coordinate_pair(s)
    \/ /\ tag = "coordinate_array"
       /\ ~is_wkt(s) /\ ~is_json(s) /\ ~is_coordinate_pair(s) /\ is_coordinate_array(s)
    \/ /\ tag = "unknown"
       /\ ~is_wkt(s) /\ ~is_json(s) /\ ~is_coordinate_pair(s) /\ ~is_coordinate_array(s)

\* the cell is null or the empty string
IsEmptyCell(cell) == cell.isnull \/ cell.text = ""

InOrder ==
    IF IsEmptyCell(fn.cell) THEN fn.result.tag = "empty"
    ELSE FirstMatch(Strip(fn.cell.text), fn.result.tag)

\* C13 as stated: the categories are tested in the order Empty, Geojson,
\* Wkt, Json, CoordinatePair, CoordinateArray, Unknown and the first that
\* matches is returned; every string matching "[ number , number ]" is
\* tagged coordinate_array.
C13_BracketIsArray ==
    (Returned("detect_geometry_format") /\ ~fn.result.raised) =>
       /\ InOrder
       /\ fn.made = "bracket" => fn.result.tag = "coordinate_array"

\* C13 amended: the categories are tested in that order and the first that
\* matches is returned; a string matching "[ number , number ]" is tagged
\* coordinate_array when it is not valid JSON and json when it is, since the
\* JSON test comes first.
C13_BracketByOrder ==
    (Returned("detect_geometry_format") /\ ~fn.result.raised) =>
       /\ InOrder
       /\ fn.made = "bracket" =>
             fn.result.tag = (IF is_json(fn.cell.text) THEN "json" ELSE "coordinate_array")

\* a bracketed pair that is no JSON reached rule 6, one that is JSON did not
C13_Witness ==
    /\ Returned("detect_geometry_format")
    /\ fn.made = "bracket"
    /\ fn.cell = TextCell("[7., 12.5]")
    /\ fn.result.tag = "coordinate_array"

\* the bounds the row loop computed are the envelope of the written points
BoundsAreEnvelope ==
    /\ ~fn.bounds.raised
    /\ BboxOf("tab", fn.bounds.bounds_info) = Envelope(PointList(fn.points))

\* C14 as stated: a bare JSON array (tag json) is flattened like GeoJSON
\* coordinates at every depth (one point [x,y], a list of points, rings):
\* each innermost list of numbers is one point and the bounds are the
\* min/max over all such points.
C14_ArrayFlattened ==
    (fn.op = "detect_geometry_format" /\ fn.made = "array") =>
       /\ fn.pc = "done" =>
             /\ ~fn.result.raised
             /\ fn.result.tag = "json"
             /\ fn.result.coordinates = PointList(fn.points)
       /\ fn.pc = "row_bounded" => BoundsAreEnvelope

ScenarioB == TextCell("MULTIPOLYGON(((1 1, 2 1, 2 2, 1 2, 1 1)))")

TwoRings == TextCell("POLYGON((0 0, 4 0, 4 3, 0 0), (1 1, 2 1, 2 2, 1 1))")

\* the WKT strings among the samples
WktSamples ==
    {ScenarioB, TwoRings, TextCell("POINT(1 2 3)"), TextCell("LINESTRING(0 0, 4 -2.5)"),
     TextCell("POINT(1 2)"), TextCell("polygon ((0 0, 1 1, 1 0, 0 0))"), TextCell("POINT()")}

\* n is the number of points the WKT sample has
SamplePointCount(cell, n) ==
    /\ cell = ScenarioB => n = 5
    /\ cell = TwoRings => n = 8
    /\ cell = TextCell("POINT(1 2 3)") => n = 1
    /\ cell = TextCell("LINESTRING(0 0, 4 -2.5)") => n = 2
    /\ cell = TextCell("POINT(1 2)") => n = 1
    /\ cell = TextCell("polygon ((0 0, 1 1, 1 0, 0 0))") => n = 4

\* C15: WKT parsing ignores the nesting and takes every "<number> <number>"
\* pair of the string in order, one point per coordinate of every ring, and
\* raises only when there is no pair: a string written from the points P in
\* any frame parses to P with tag wkt and its bounds are the envelope of P;
\* Scenario B gives exactly 5 points and bbox [1,1,2,2].
C15_WktPairs ==
    fn.op = "detect_geometry_format" =>
       /\ (fn.made = "wkt" /\ fn.pc = "done") =>
             /\ fn.result.raised <=> fn.points = <<>>
             /\ ~fn.result.raised =>
                   (fn.result.tag = "wkt" /\ fn.result.coordinates = PointList(fn.points))
       /\ (fn.made = "wkt" /\ fn.pc = "row_bounded") => BoundsAreEnvelope
       /\ (fn.made = "sample" /\ fn.pc = "done" /\ fn.cell \in WktSamples) =>
             /\ fn.result.raised <=> fn.cell = TextCell("POINT()")
             /\ ~fn.result.raised =>
                   /\ fn.result.tag = "wkt"
                   /\ SamplePointCount(fn.cell, Len(fn.result.coordinates))
       /\ (fn.pc = "row_bounded" /\ fn.cell = ScenarioB) =>
             /\ ~fn.bounds.raised
             /\ BboxOf("tab", fn.bounds.bounds_info) = <<Scale, Scale, 2 * Scale, 2 * Scale>>

\* Scenario B went through parsing and bounds
C15_Witness ==
    /\ RowBoundsReturned
    /\ fn.cell = ScenarioB
    /\ Len(fn.result.coordinates) = 5
    /\ fn.result.tag = "wkt"

====
